---- MODULE Spec2Model ----
(***************************************************************************)
(* Model of the notebook Scipy2024_Part_4_Forecasting_with_Deep_Learning:  *)
(* the TimeSeries container, gluon_ds_to_timeseries,                       *)
(* gluon_predictions_to_timeseries, extract_train_dataset,                 *)
(* timesfm_predictions_to_timeseries and the RMSE evaluation of the        *)
(* context_len sweep.                                                      *)
(*                                                                         *)
(* Time is counted in hours: a datetime is an integer, timedelta(hours=i)  *)
(* is i and timedelta(days=7) is SevenDays.  A numpy array is the sequence *)
(* of its elements (no array is written in place anywhere in the           *)
(* notebook).  A Python dict is a mutable object: the notebook's dicts     *)
(* live in `heap` and a TimeSeries holds a reference to one, so that two   *)
(* containers can share one mapping as they can in Python.                 *)
(***************************************************************************)
EXTENDS Integers, Sequences, FiniteSets, TLC

VARIABLES
  gluon_dataset,   \* the external dataset: a sequence of records
  heap,            \* the dict objects, by reference
  dataset,         \* notebook global `dataset`
  train_dataset,   \* notebook global `train_dataset`
  predictions,     \* notebook global `predictions`
  view,            \* result of a further call of extract_train_dataset
  end_of_data,     \* notebook global `end_of_data`
  end_of_train,    \* notebook global `end_of_train`
  pc,              \* the next cell of the notebook's preparation
  ncalls,          \* calls made after the preparation
  last,            \* the last call: its arguments and its outcome
  ot_prediction,   \* evaluation: the forecast of OT_0
  reference,       \* evaluation: dataset.features["OT_0"]
  ot_ground_truth, \* evaluation: the tail of the reference
  rmse,            \* evaluation: the RMSE, or the exception raised
  epc,             \* evaluation: the next statement
  timesfm_predictions, \* sweep: the array tfm.forecast returned last
  context_len_idx, \* sweep: the loop variable, 0 before the loop
  context_len,     \* sweep: notebook global `context_len`
  results,         \* sweep: the rows appended to `results`
  returned,        \* sweep: the last two containers the conversion returned
  spc              \* sweep: the next statement

cvars == <<gluon_dataset, heap, dataset, train_dataset, predictions, view,
           end_of_data, end_of_train, pc, ncalls, last>>
evars == <<ot_prediction, reference, ot_ground_truth, rmse, epc>>
svars == <<timesfm_predictions, context_len_idx, context_len, results,
           returned, spc>>
vars == <<cvars, evars, svars>>

(***************************************************************************)
(* Bounds of the model.                                                    *)
(***************************************************************************)
MaxLen == 3
MaxCols == 2
MaxCalls == 1

\* timedelta(days=7), in hours
SevenDays == 168

\* prediction_length=24 * 7
PredictionLength == 168

Names == {"OT_0", "OT_1"}
Starts == {0, 1}
Prefixes == {"", "p_"}

(***************************************************************************)
(* Python dict: insertion-ordered, unique keys.  A dict is the sequence of *)
(* its entries in insertion order.                                         *)
(***************************************************************************)
EmptyDict == <<>>

DictKeys(d) == [i \in 1..Len(d) |-> d[i].name]

DictHas(d, k) == \E i \in 1..Len(d) : d[i].name = k

DictGet(d, k) == d[CHOOSE i \in 1..Len(d) : d[i].name = k].vals

\* d[k] = v: replaces the value in place when k is a key, appends otherwise
DictSet(d, k, v) ==
  IF DictHas(d, k)
  THEN [i \in 1..Len(d) |-> IF d[i].name = k THEN [name |-> k, vals |-> v] ELSE d[i]]
  ELSE Append(d, [name |-> k, vals |-> v])

(***************************************************************************)
(* The TimeSeries dataclass: two fields, stored as given.                  *)
(***************************************************************************)
TimeSeries(timestamps, features) ==
  [bound |-> TRUE, timestamps |-> timestamps, features |-> features]

\* a notebook global that has not been assigned
Unbound == [bound |-> FALSE, timestamps |-> <<>>, features |-> "none"]

\* the mapping a container's `features` field refers to
Features(ts) == heap[ts.features]

(***************************************************************************)
(* The external dataset.  A record has an item_id, a start and a target;   *)
(* the target of the r-th record is fixed by r and its length, so that the *)
(* values differ from record to record and from index to index.            *)
(***************************************************************************)
TargetOf(r, len) == [i \in 1..len |-> 100 * r + 10 * i]

RecordShapes == [item_id : Names, start : Starts, len : 1..MaxLen]

MakeDataset(shapes) ==
  [r \in 1..Len(shapes) |->
     [item_id |-> shapes[r].item_id,
      start   |-> shapes[r].start,
      target  |-> TargetOf(r, shapes[r].len)]]

GluonDatasets ==
  { MakeDataset(s) : s \in [1..1 -> RecordShapes] \cup [1..2 -> RecordShapes] }

(***************************************************************************)
(* gluon_ds_to_timeseries                                                  *)
(***************************************************************************)
\* timestamps of the first record: start + timedelta(hours=i), i in range(len)
GluonTimestamps(ds) ==
  [i \in 1..Len(ds[1].target) |-> ds[1].start + (i - 1)]

\* features[x["item_id"]] = x["target"] for the first n records
RECURSIVE GluonFeatures(_, _)
GluonFeatures(ds, n) ==
  IF n = 0 THEN EmptyDict
  ELSE DictSet(GluonFeatures(ds, n - 1), ds[n].item_id, ds[n].target)

(***************************************************************************)
(* extract_train_dataset                                                   *)
(***************************************************************************)
\* Mask with the comparison made inclusive
MaskInclusive(timestamps, date) == [i \in 1..Len(timestamps) |-> timestamps[i] <= date]

\* np.asarray(dataset.timestamps) < date
Mask(timestamps, date) == [i \in 1..Len(timestamps) |-> timestamps[i] < date]

\* the indices lo..hi a boolean mask selects, in increasing order
RECURSIVE SelectedIn(_, _, _)
SelectedIn(mask, lo, hi) ==
  IF lo > hi THEN <<>>
  ELSE IF lo = hi THEN (IF mask[lo] THEN <<lo>> ELSE <<>>)
  ELSE LET mid == (lo + hi) \div 2
       IN  SelectedIn(mask, lo, mid) \o SelectedIn(mask, mid + 1, hi)

\* the indices 1..n a boolean mask selects, in increasing order
Selected(mask, n) == SelectedIn(mask, 1, n)

\* a[mask] for a boolean mask of the length of a
BoolIndex(a, mask) ==
  LET sel == Selected(mask, Len(mask))
  IN  [k \in 1..Len(sel) |-> a[sel[k]]]

\* a[mask] raises IndexError when the mask's length is not the array's
ExtractRaises(timestamps, features, date) ==
  \E i \in 1..Len(features) : Len(features[i].vals) # Len(timestamps)

ExtractTimestamps(timestamps, date) ==
  BoolIndex(timestamps, Mask(timestamps, date))

\* ExtractFeatures keeping as many values as the mask selects, but from the
\* end of each series instead of index for index
ExtractFeaturesFromEnd(timestamps, features, date) ==
  LET cnt == Len(Selected(Mask(timestamps, date), Len(timestamps)))
  IN  [i \in 1..Len(features) |->
         [name |-> features[i].name,
          vals |-> SubSeq(features[i].vals,
                          Len(features[i].vals) - cnt + 1, Len(features[i].vals))]]

ExtractFeatures(timestamps, features, date) ==
  [i \in 1..Len(features) |->
     [name |-> features[i].name,
      vals |-> BoolIndex(features[i].vals, Mask(timestamps, date))]]

(***************************************************************************)
(* The record of the last call.                                            *)
(***************************************************************************)
NoCall ==
  [op |-> "none", target |-> "none", src |-> "none", date |-> 0,
   cols |-> 0, prefix |-> "", features |-> "none", raised |-> "none"]

\* the dict objects: one per notebook global that holds a container, and
\* `spare` for the mapping of a second container the conversion returned
EmptyHeap ==
  [dataset |-> EmptyDict, train_dataset |-> EmptyDict,
   predictions |-> EmptyDict, view |-> EmptyDict, spare |-> EmptyDict]

\* the sweep's variables before the sweep
SweepIdle ==
  /\ timesfm_predictions = <<>>
  /\ context_len_idx = 0
  /\ context_len = 0
  /\ results = <<>>
  /\ returned = <<>>
  /\ spc = "idle"

Init ==
  /\ gluon_dataset \in GluonDatasets
  /\ heap = EmptyHeap
  /\ dataset = Unbound
  /\ train_dataset = Unbound
  /\ predictions = Unbound
  /\ view = Unbound
  /\ end_of_data = 0
  /\ end_of_train = 0
  /\ pc = "convert"
  /\ ncalls = 0
  /\ last = NoCall
  /\ ot_prediction = <<>>
  /\ reference = <<>>
  /\ ot_ground_truth = <<>>
  /\ rmse = [kind |-> "none", sumsq |-> 0, count |-> 0, milli |-> 0]
  /\ epc = "idle"
  /\ SweepIdle

\* dataset = gluon_ds_to_timeseries(gluon_dataset)
ConvertDataset ==
  /\ pc = "convert"
  /\ heap' = [heap EXCEPT !.dataset = GluonFeatures(gluon_dataset, Len(gluon_dataset))]
  /\ dataset' = TimeSeries(GluonTimestamps(gluon_dataset), "dataset")
  /\ last' = [NoCall EXCEPT !.op = "gluon_ds_to_timeseries", !.target = "dataset"]
  /\ pc' = "end_of_data"
  /\ UNCHANGED <<gluon_dataset, train_dataset, predictions, view,
                 end_of_data, end_of_train, ncalls, evars, svars>>

\* end_of_data = dataset.timestamps[-1]
SetEndOfData ==
  /\ pc = "end_of_data"
  /\ end_of_data' = dataset.timestamps[Len(dataset.timestamps)]
  /\ pc' = "end_of_train"
  /\ UNCHANGED <<gluon_dataset, heap, dataset, train_dataset, predictions, view,
                 end_of_train, ncalls, last, evars, svars>>

\* end_of_train = end_of_data - timedelta(days=7)
SetEndOfTrain ==
  /\ pc = "end_of_train"
  /\ end_of_train' = end_of_data - SevenDays
  /\ pc' = "gluon_predictions"
  /\ UNCHANGED <<gluon_dataset, heap, dataset, train_dataset, predictions, view,
                 end_of_data, ncalls, last, evars, svars>>

\* the forecasts model.predict(X.input) yields for a test set split at
\* end_of_train: one per record of the dataset, with the record's item_id, an
\* index of h hours that begins one hour after the split date, and a mean
\* fixed by the record and the hour
GluonForecasts(ds, date, h) ==
  [r \in 1..Len(ds) |->
     [item_id |-> ds[r].item_id,
      index   |-> [j \in 1..h |-> date + j],
      mean    |-> [j \in 1..h |-> (r + j) % 3]]]

\* features[x.item_id] = x.mean for the first n forecasts
RECURSIVE GluonPredictionFeatures(_, _)
GluonPredictionFeatures(fs, n) ==
  IF n = 0 THEN EmptyDict
  ELSE DictSet(GluonPredictionFeatures(fs, n - 1), fs[n].item_id, fs[n].mean)

\* predictions = gluon_predictions_to_timeseries(model, gluon_test_ds), the
\* forecasts having h hours: timestamps is the index of the first forecast
ConvertGluonPredictions(h) ==
  /\ pc = "gluon_predictions"
  /\ LET fs == GluonForecasts(gluon_dataset, end_of_train, h)
     IN  /\ heap' = [heap EXCEPT !.predictions = GluonPredictionFeatures(fs, Len(fs))]
         /\ predictions' = TimeSeries(fs[1].index, "predictions")
  /\ last' = [NoCall EXCEPT !.op = "gluon_predictions_to_timeseries",
                            !.target = "predictions"]
  /\ pc' = "extract"
  /\ UNCHANGED <<gluon_dataset, dataset, train_dataset, view,
                 end_of_data, end_of_train, ncalls, evars, svars>>

ExtractCall(target, src, date, raised) ==
  [NoCall EXCEPT !.op = "extract_train_dataset", !.target = target,
                 !.src = src, !.date = date, !.raised = raised]

\* train_dataset = extract_train_dataset(dataset, end_of_train)
ExtractTrain ==
  /\ pc = "extract"
  /\ pc' = "calls"
  /\ IF ExtractRaises(dataset.timestamps, Features(dataset), end_of_train)
     THEN /\ last' = ExtractCall("train_dataset", "dataset", end_of_train, "IndexError")
          /\ UNCHANGED <<heap, train_dataset>>
     ELSE /\ heap' = [heap EXCEPT !.train_dataset =
                        ExtractFeatures(dataset.timestamps, Features(dataset), end_of_train)]
          /\ train_dataset' =
               TimeSeries(ExtractTimestamps(dataset.timestamps, end_of_train), "train_dataset")
          /\ last' = ExtractCall("train_dataset", "dataset", end_of_train, "none")
  /\ UNCHANGED <<gluon_dataset, dataset, predictions, view,
                 end_of_data, end_of_train, ncalls, evars, svars>>

\* the container a notebook global names
Slot(name) ==
  CASE name = "dataset" -> dataset
    [] name = "train_dataset" -> train_dataset
    [] name = "predictions" -> predictions
    [] name = "view" -> view
    [] OTHER -> Unbound

SlotNames == {"dataset", "train_dataset", "predictions", "view"}

\* the cutoffs tried on a container: before, at and just after its first
\* timestamp, at and after its last
Dates(ts) ==
  LET first == ts.timestamps[1]
      final == ts.timestamps[Len(ts.timestamps)]
  IN  { d \in (first - 1)..(final + 1) : d <= first + 1 \/ d >= final }

\* view = extract_train_dataset(src, date), for a container src and a date
CallExtract(src, date) ==
  /\ pc = "calls"
  /\ ncalls < MaxCalls
  /\ ncalls' = ncalls + 1
  /\ IF ExtractRaises(Slot(src).timestamps, Features(Slot(src)), date)
     THEN /\ last' = ExtractCall("view", src, date, "IndexError")
          /\ UNCHANGED <<heap, view>>
     ELSE /\ heap' = [heap EXCEPT !.view =
                        ExtractFeatures(Slot(src).timestamps, Features(Slot(src)), date)]
          /\ view' = TimeSeries(ExtractTimestamps(Slot(src).timestamps, date), "view")
          /\ last' = ExtractCall("view", src, date, "none")
  /\ UNCHANGED <<gluon_dataset, dataset, train_dataset, predictions,
                 end_of_data, end_of_train, pc, evars, svars>>

(***************************************************************************)
(* timesfm_predictions_to_timeseries                                       *)
(***************************************************************************)
\* the forecast array: one row per forecast input, one column per step
ForecastArray(rows, cols) ==
  [i \in 1..rows |-> [j \in 1..cols |-> 1000 + 10 * i + j]]

\* PredictionTimestamps counting the hours from 1 instead of 0
PredictionTimestampsFromOne(anchor, cols) == [j \in 1..cols |-> anchor + j]

\* timestamps = [end_of_train + timedelta(hours=i) for i in range(shape[1])]
PredictionTimestamps(anchor, cols) == [j \in 1..cols |-> anchor + (j - 1)]

\* the key the i-th row is stored under
PredictionKey(prefix, name) == prefix \o name

\* for name, prediction in zip(train_dataset.features.keys(), arr):
\*     features[prefix + name] = prediction
\* from the i-th iteration on.  `features` is the mapping written, `keys`
\* the mapping iterated (train_dataset.features), which is `features` itself
\* when `aliased`; size is the iterated mapping's size when the iteration
\* began: a dict iterator raises RuntimeError when its dict has changed size.
RECURSIVE PredictionLoop(_, _, _, _, _, _, _)
PredictionLoop(features, keys, arr, prefix, aliased, i, size) ==
  LET iterated == IF aliased THEN features ELSE keys
  IN  IF Len(iterated) # size
      THEN [dict |-> features, raised |-> "RuntimeError"]
      ELSE IF i > Len(iterated) \/ i > Len(arr)
      THEN [dict |-> features, raised |-> "none"]
      ELSE PredictionLoop(
             DictSet(features, PredictionKey(prefix, iterated[i].name), arr[i]),
             keys, arr, prefix, aliased, i + 1, size)

PredictionCall(cols, prefix, features, raised) ==
  [NoCall EXCEPT !.op = "timesfm_predictions_to_timeseries",
                 !.target = "predictions", !.cols = cols, !.prefix = prefix,
                 !.features = features, !.raised = raised]

\* predictions = timesfm_predictions_to_timeseries(arr, prefix, features)
\* where arr has one row per series of train_dataset and cols columns, and
\* features is None ("none") or the features of the container `arg` names
CallPredictions(cols, prefix, arg) ==
  /\ pc = "calls"
  /\ ncalls < MaxCalls
  /\ train_dataset.bound
  /\ arg = "none" \/ Slot(arg).bound
  /\ ncalls' = ncalls + 1
  /\ LET ref  == IF arg = "none" THEN "predictions" ELSE Slot(arg).features
         init == IF arg = "none" THEN EmptyDict ELSE heap[ref]
         keys == Features(train_dataset)
         arr  == ForecastArray(Len(keys), cols)
         out  == PredictionLoop(init, keys, arr, prefix,
                                arg # "none" /\ ref = train_dataset.features,
                                1, Len(keys))
     IN  /\ heap' = [heap EXCEPT ![ref] = out.dict]
         /\ last' = PredictionCall(cols, prefix, arg, out.raised)
         /\ IF out.raised = "none"
            THEN predictions' = TimeSeries(PredictionTimestamps(end_of_train, cols), ref)
            ELSE UNCHANGED predictions
  /\ UNCHANGED <<gluon_dataset, dataset, train_dataset, view,
                 end_of_data, end_of_train, pc, evars, svars>>

Next ==
  \/ ConvertDataset
  \/ SetEndOfData
  \/ SetEndOfTrain
  \/ ConvertGluonPredictions(PredictionLength)
  \/ ExtractTrain
  \/ \E src \in {"dataset", "train_dataset", "predictions"} :
       /\ Slot(src).bound
       /\ Len(Slot(src).timestamps) > 0
       /\ \E date \in Dates(Slot(src)) : CallExtract(src, date)
  \/ \E cols \in 1..MaxCols, prefix \in Prefixes,
        arg \in {"none", "dataset", "train_dataset", "predictions"} :
       CallPredictions(cols, prefix, arg)

Spec == Init /\ [][Next]_vars

(***************************************************************************)
(* The evaluation of the context_len sweep:                                *)
(*   ot_prediction = predictions.features["OT_0"]                          *)
(*   ot_ground_truth = dataset.features["OT_0"][-len(ot_prediction):]      *)
(*   rmse = np.sqrt(np.mean((ot_prediction-ot_ground_truth)**2))           *)
(* over integer sequences.                                                 *)
(***************************************************************************)
EvalValues == {0, 1, 2}

SeqsUpTo(S, lo, hi) == UNION { [1..n -> S] : n \in lo..hi }

Max(a, b) == IF a > b THEN a ELSE b

\* PyTail starting two elements earlier
PyTailTwoMore(x, k) ==
  IF k = 0 THEN x
  ELSE SubSeq(x, Max(Len(x) - k - 2, 0) + 1, Len(x))

\* x[-k:] as Python slices: -0 is 0, so x[-0:] is x[0:]; a start before the
\* beginning is clipped to the beginning
PyTail(x, k) ==
  IF k = 0 THEN x
  ELSE SubSeq(x, Max(Len(x) - k, 0) + 1, Len(x))

\* the length of a - b under numpy's broadcasting of one-dimensional arrays,
\* -1 when the shapes do not broadcast (ValueError)
BroadcastLen(m, n) ==
  IF m = n THEN m
  ELSE IF m = 1 THEN n
  ELSE IF n = 1 THEN m
  ELSE -1

\* element i of a one-dimensional array broadcast to a longer shape
Elem(a, i) == IF Len(a) = 1 THEN a[1] ELSE a[i]

\* SqDiff without the square
SignedDiff(a, b) == a - b

\* one element of (ot_prediction - ot_ground_truth)**2
SqDiff(a, b) == (a - b) * (a - b)

\* the sum of the elements lo..hi of (p - t)**2
RECURSIVE SumSqDiffIn(_, _, _, _)
SumSqDiffIn(p, t, lo, hi) ==
  IF lo > hi THEN 0
  ELSE IF lo = hi THEN SqDiff(Elem(p, lo), Elem(t, lo))
  ELSE LET mid == (lo + hi) \div 2
       IN  SumSqDiffIn(p, t, lo, mid) + SumSqDiffIn(p, t, mid + 1, hi)

SumSqDiff(p, t, n) == SumSqDiffIn(p, t, 1, n)

\* the integer square root of n, searched between lo and hi
RECURSIVE ISqrtIn(_, _, _)
ISqrtIn(n, lo, hi) ==
  IF lo = hi THEN lo
  ELSE LET mid == (lo + hi + 1) \div 2
       IN  IF mid * mid <= n THEN ISqrtIn(n, mid, hi) ELSE ISqrtIn(n, lo, mid - 1)

\* 46340 is the largest integer whose square is below 2^31
ISqrt(n) == ISqrtIn(n, 0, IF n < 46340 THEN n ELSE 46340)

NoRmse == [kind |-> "none", sumsq |-> 0, count |-> 0, milli |-> 0]

\* np.sqrt(np.mean((p - t)**2)): the sum of the squared differences, their
\* count, and the root of their mean in thousandths, rounded down.  The mean
\* of no element is nan, and so is the root of a negative number; shapes
\* that do not broadcast raise ValueError.
Rmse(p, t) ==
  LET n == BroadcastLen(Len(p), Len(t))
  IN  IF n = -1 THEN [NoRmse EXCEPT !.kind = "ValueError"]
      ELSE IF n = 0 THEN [NoRmse EXCEPT !.kind = "nan"]
      ELSE LET s == SumSqDiff(p, t, n)
           IN  IF s < 0
               THEN [NoRmse EXCEPT !.kind = "nan", !.sumsq = s, !.count = n]
               ELSE [kind |-> "value", sumsq |-> s, count |-> n,
                     milli |-> ISqrt((s * 1000000) \div n)]

InitEval ==
  /\ gluon_dataset = <<>>
  /\ heap = EmptyHeap
  /\ dataset = Unbound
  /\ train_dataset = Unbound
  /\ predictions = Unbound
  /\ view = Unbound
  /\ end_of_data = 0
  /\ end_of_train = 0
  /\ pc = "sweep"
  /\ ncalls = 0
  /\ last = NoCall
  /\ ot_prediction \in SeqsUpTo(EvalValues, 0, MaxLen)
  /\ reference \in SeqsUpTo(EvalValues, 1, MaxLen)
  /\ ot_ground_truth = <<>>
  /\ rmse = NoRmse
  /\ epc = "slice"
  /\ SweepIdle

\* ot_ground_truth = dataset.features["OT_0"][-len(ot_prediction):]
SliceGroundTruth ==
  /\ epc = "slice"
  /\ ot_ground_truth' = PyTail(reference, Len(ot_prediction))
  /\ epc' = "rmse"
  /\ UNCHANGED <<cvars, svars, ot_prediction, reference, rmse>>

\* rmse = np.sqrt(np.mean((ot_prediction-ot_ground_truth)**2))
ComputeRmse ==
  /\ epc = "rmse"
  /\ rmse' = Rmse(ot_prediction, ot_ground_truth)
  /\ epc' = "done"
  /\ UNCHANGED <<cvars, svars, ot_prediction, reference, ot_ground_truth>>

NextEval == SliceGroundTruth \/ ComputeRmse

SpecEval == InitEval /\ [][NextEval]_vars

(***************************************************************************)
(* The TimesFM pipeline: the preparation, the first forecast and its       *)
(* conversion, then the context_len sweep                                  *)
(*   for context_len_idx in range(1, num_context_len_idx):                 *)
(*     context_len = 32 * context_len_idx                                  *)
(*     timesfm_predictions, _ = tfm.forecast(forecast_input, ...)          *)
(*     predictions = timesfm_predictions_to_timeseries(timesfm_predictions)*)
(*     ot_prediction = predictions.features["OT_0"]                        *)
(*     ot_ground_truth = dataset.features["OT_0"][-len(ot_prediction):]    *)
(*     rmse = np.sqrt(np.mean((ot_prediction-ot_ground_truth)**2))         *)
(*     results.append({"rmse": rmse, "context_len": context_len})          *)
(* on hourly datasets longer than seven days.                              *)
(***************************************************************************)
\* hours a dataset of the pipeline has beyond timedelta(days=7)
MaxExtra == 2

\* horizon_len=7*24
HorizonLen == 168

\* context_len=32*5 of the first TimesFm object
FirstContextLen == 160

\* the factor of context_len = 32 * context_len_idx
ContextLenUnit == 32

num_context_len_idx == 35

\* the target of the r-th record of a dataset of the pipeline
SweepTarget(r, len) == [i \in 1..len |-> (r + i) % 3]

SweepRecordShapes ==
  [item_id : Names, start : Starts, len : (SevenDays + 1)..(SevenDays + MaxExtra)]

MakeSweepDataset(shapes) ==
  [r \in 1..Len(shapes) |->
     [item_id |-> shapes[r].item_id,
      start   |-> shapes[r].start,
      target  |-> SweepTarget(r, shapes[r].len)]]

SweepDatasets ==
  { MakeSweepDataset(s) :
      s \in [1..1 -> SweepRecordShapes] \cup [1..2 -> SweepRecordShapes] }

\* the array tfm.forecast returns: one row per forecast input, horizon_len
\* columns, its values fixed by the context length, the row and the column
Forecast(rows, ctx) ==
  [i \in 1..rows |->
     [j \in 1..HorizonLen |-> (ctx \div ContextLenUnit + i + j) % 3]]

\* forecast_input = train_dataset.features.values(): a view of the mapping,
\* read when the forecast is made
ForecastInput == [i \in 1..Len(Features(train_dataset)) |-> Features(train_dataset)[i].vals]

\* the mapping one default dict shared by every call would be: the one
\* object, with what earlier calls stored in it
SharedDefaultFeatures(h, cur) == [ref |-> "predictions", dict |-> h.predictions]

\* if features is None: features = {}
\* a new, empty dict: an object other than the mapping of the container
\* `predictions` names (reference cur)
DefaultFeatures(h, cur) ==
  [ref |-> IF cur = "predictions" THEN "spare" ELSE "predictions", dict |-> EmptyDict]

InitSweep ==
  /\ gluon_dataset \in SweepDatasets
  /\ heap = EmptyHeap
  /\ dataset = Unbound
  /\ train_dataset = Unbound
  /\ predictions = Unbound
  /\ view = Unbound
  /\ end_of_data = 0
  /\ end_of_train = 0
  /\ pc = "convert"
  /\ ncalls = 0
  /\ last = NoCall
  /\ ot_prediction = <<>>
  /\ reference = <<>>
  /\ ot_ground_truth = <<>>
  /\ rmse = NoRmse
  /\ epc = "idle"
  /\ timesfm_predictions = <<>>
  /\ context_len_idx = 0
  /\ context_len = 0
  /\ results = <<>>
  /\ returned = <<>>
  /\ spc = "forecast"

\* timesfm_predictions, _ = tfm.forecast(forecast_input, freq=frequency_input)
\* with the first TimesFm object
FirstForecast ==
  /\ pc = "calls"
  /\ train_dataset.bound
  /\ spc = "forecast"
  /\ timesfm_predictions' = Forecast(Len(ForecastInput), FirstContextLen)
  /\ spc' = "to_timeseries"
  /\ UNCHANGED <<cvars, evars, context_len_idx, context_len, results, returned>>

\* predictions = timesfm_predictions_to_timeseries(timesfm_predictions)
ConvertPredictions ==
  LET cur  == IF predictions.bound THEN predictions.features ELSE "none"
      new  == DefaultFeatures(heap, cur)
      keys == Features(train_dataset)
      cols == Len(timesfm_predictions[1])
      out  == PredictionLoop(new.dict, keys, timesfm_predictions, "", FALSE,
                             1, Len(keys))
  IN  /\ heap' = [heap EXCEPT ![new.ref] = out.dict]
      /\ predictions' = TimeSeries(PredictionTimestamps(end_of_train, cols), new.ref)
      /\ last' = PredictionCall(cols, "", "none", out.raised)
      /\ returned' =
           LET this == [features |-> new.ref, array |-> timesfm_predictions]
           IN  IF returned = <<>> THEN <<this>>
               ELSE <<returned[Len(returned)], this>>

FirstConvert ==
  /\ spc = "to_timeseries"
  /\ context_len_idx = 0
  /\ ConvertPredictions
  /\ spc' = "loop"
  /\ UNCHANGED <<gluon_dataset, dataset, train_dataset, view, end_of_data,
                 end_of_train, pc, ncalls, evars, timesfm_predictions,
                 context_len_idx, context_len, results>>

\* for context_len_idx in range(1, num_context_len_idx):
\*   context_len = 32 * context_len_idx
LoopHead ==
  /\ spc = "loop"
  /\ IF context_len_idx + 1 < num_context_len_idx
     THEN /\ context_len_idx' = context_len_idx + 1
          /\ context_len' = ContextLenUnit * (context_len_idx + 1)
          /\ spc' = "sweep_forecast"
     ELSE /\ spc' = "done"
          /\ UNCHANGED <<context_len_idx, context_len>>
  /\ UNCHANGED <<cvars, evars, timesfm_predictions, results, returned>>

\* timesfm_predictions, _ = tfm.forecast(forecast_input, freq=frequency_input,
\*                                       forecast_context_len=context_len)
SweepForecast ==
  /\ spc = "sweep_forecast"
  /\ timesfm_predictions' = Forecast(Len(ForecastInput), context_len)
  /\ spc' = "to_timeseries"
  /\ UNCHANGED <<cvars, evars, context_len_idx, context_len, results, returned>>

SweepConvert ==
  /\ spc = "to_timeseries"
  /\ context_len_idx > 0
  /\ ConvertPredictions
  /\ spc' = "select"
  /\ UNCHANGED <<gluon_dataset, dataset, train_dataset, view, end_of_data,
                 end_of_train, pc, ncalls, evars, timesfm_predictions,
                 context_len_idx, context_len, results>>

\* ot_prediction = predictions.features["OT_0"], and the series
\* dataset.features["OT_0"] the next statement slices; a missing key raises
\* KeyError
SelectPrediction ==
  /\ spc = "select"
  /\ IF DictHas(Features(predictions), "OT_0") /\ DictHas(Features(dataset), "OT_0")
     THEN /\ ot_prediction' = DictGet(Features(predictions), "OT_0")
          /\ reference' = DictGet(Features(dataset), "OT_0")
          /\ epc' = "slice"
          /\ spc' = "evaluate"
     ELSE /\ spc' = "KeyError"
          /\ UNCHANGED <<ot_prediction, reference, epc>>
  /\ UNCHANGED <<cvars, ot_ground_truth, rmse, timesfm_predictions,
                 context_len_idx, context_len, results, returned>>

\* results.append({"rmse": rmse, "context_len": context_len}), once the RMSE
\* is computed; an exception of the RMSE ends the loop
AppendResult ==
  /\ spc = "evaluate"
  /\ epc = "done"
  /\ epc' = "idle"
  /\ IF rmse.kind = "ValueError"
     THEN /\ spc' = "ValueError"
          /\ UNCHANGED results
     ELSE /\ results' = Append(results, [rmse |-> rmse, context_len |-> context_len])
          /\ spc' = "loop"
  /\ UNCHANGED <<cvars, ot_prediction, reference, ot_ground_truth, rmse,
                 timesfm_predictions, context_len_idx, context_len, returned>>

NextSweep ==
  \/ ConvertDataset
  \/ SetEndOfData
  \/ SetEndOfTrain
  \/ ConvertGluonPredictions(PredictionLength)
  \/ ExtractTrain
  \/ FirstForecast
  \/ FirstConvert
  \/ LoopHead
  \/ SweepForecast
  \/ SweepConvert
  \/ SelectPrediction
  \/ SliceGroundTruth
  \/ ComputeRmse
  \/ AppendResult

SpecSweep == InitSweep /\ [][NextSweep]_vars

(***************************************************************************)
(* Properties.                                                             *)
(***************************************************************************)
Range(f) == { f[i] : i \in DOMAIN f }

StrictlyIncreasing(ts) == \A i \in 1..(Len(ts) - 1) : ts[i] < ts[i + 1]

\* the last call was extract_train_dataset and it returned a container
ExtractReturned ==
  last.op = "extract_train_dataset" /\ last.raised = "none"

\* the container the last call was given, and the one it returned
Src == Slot(last.src)
Res == Slot(last.target)

\* the timestamps a split at date d withholds from the train view
HeldOut(ts, d) == SelectSeq(ts, LAMBDA t : t >= d)

\* C1: after extract_train_dataset(c, d) on a container c with strictly
\* increasing timestamps, the train view holds exactly the timestamps of c
\* before d, the held-out timestamps (those >= d) are disjoint from them,
\* the two lengths add up to the length of c.timestamps, and the train
\* timestamps followed by the held-out ones are c.timestamps.
SplitPartitionsTimestamps ==
  (ExtractReturned /\ StrictlyIncreasing(Src.timestamps)) =>
    LET train == Res.timestamps
        held  == HeldOut(Src.timestamps, last.date)
    IN  /\ train = SelectSeq(Src.timestamps, LAMBDA t : t < last.date)
        /\ Range(train) \cap Range(held) = {}
        /\ Len(train) + Len(held) = Len(Src.timestamps)
        /\ train \o held = Src.timestamps

\* a split strictly inside the container: both parts are non-empty
SplitInsideReached ==
  /\ ExtractReturned
  /\ Len(Src.timestamps) >= 3
  /\ Len(Res.timestamps) >= 1
  /\ Len(HeldOut(Src.timestamps, last.date)) >= 2

\* how many of the first i timestamps of ts are before d: when ts[i] is
\* before d, it is the k-th such timestamp for k = CountBefore(ts, d, i)
CountBefore(ts, d, i) == Cardinality({ j \in 1..i : ts[j] < d })

\* C2: a view returned by extract_train_dataset(c, d) has the series names of
\* c, and position k of every series (and of the timestamps) holds the value
\* c has at the index of its k-th timestamp before d.
SplitFiltersSeriesByIndex ==
  ExtractReturned =>
    /\ DictKeys(Features(Res)) = DictKeys(Features(Src))
    /\ \A n \in 1..Len(Features(Src)) :
         LET rv == Features(Res)[n].vals
             sv == Features(Src)[n].vals
         IN  /\ Len(rv) = Len(Res.timestamps)
             /\ Len(rv) = CountBefore(Src.timestamps, last.date, Len(Src.timestamps))
             /\ \A i \in 1..Len(Src.timestamps) :
                  Src.timestamps[i] < last.date =>
                    LET k == CountBefore(Src.timestamps, last.date, i)
                    IN  /\ rv[k] = sv[i]
                        /\ Res.timestamps[k] = Src.timestamps[i]

\* two series of three values split after the second timestamp
SplitTwoSeriesReached ==
  /\ ExtractReturned
  /\ Len(Features(Src)) = 2
  /\ Len(Src.timestamps) = 3
  /\ Len(Res.timestamps) = 2
  /\ \A n \in 1..2 : Len(Features(Res)[n].vals) = 2

Aligned(ts) ==
  \A i \in 1..Len(Features(ts)) : Len(Features(ts)[i].vals) = Len(ts.timestamps)

\* C3: in every container the notebook holds, every series has as many values
\* as the container has timestamps.
AllSeriesAligned ==
  \A s \in SlotNames : Slot(s).bound => Aligned(Slot(s))

\* the last call was timesfm_predictions_to_timeseries and it returned
PredictionReturned ==
  last.op = "timesfm_predictions_to_timeseries" /\ last.raised = "none"

\* the series identifiers of the call, in order, and its forecast array
PredictionIds == DictKeys(Features(train_dataset))
PredictionArray == ForecastArray(Len(PredictionIds), last.cols)

\* the result has one timestamp per column, end_of_train + j hours, and the
\* series keyed by the prefixed i-th identifier is row i
PredictionRowsAndColumns ==
  /\ Len(predictions.timestamps) = last.cols
  /\ \A j \in 1..last.cols : predictions.timestamps[j] = end_of_train + (j - 1)
  /\ \A i \in 1..Len(PredictionIds) :
       /\ DictHas(Features(predictions), last.prefix \o PredictionIds[i])
       /\ DictGet(Features(predictions), last.prefix \o PredictionIds[i])
            = PredictionArray[i]

\* C4 as stated: the container returned for an R x C array has C timestamps
\* end_of_train + j hours, row i under the prefixed i-th identifier, and
\* exactly R series.
PredictionHasExactlyRSeries ==
  PredictionReturned =>
    /\ PredictionRowsAndColumns
    /\ Len(Features(predictions)) = Len(PredictionIds)

\* C4 as amended: the container returned for an R x C array has C timestamps
\* end_of_train + j hours and row i under the prefixed i-th identifier; it
\* has exactly R series when no features mapping is passed, and at least R
\* (the mapping's other entries are kept) when one is.
PredictionMapsRowsAndColumns ==
  PredictionReturned =>
    /\ PredictionRowsAndColumns
    /\ Len(Features(predictions)) >= Len(PredictionIds)
    /\ last.features = "none" => Len(Features(predictions)) = Len(PredictionIds)

\* a 2 x 2 array converted with a prefix and no features mapping
PredictionTwoByTwoReached ==
  /\ PredictionReturned
  /\ last.features = "none"
  /\ last.prefix = "p_"
  /\ last.cols = 2
  /\ Len(PredictionIds) = 2
  /\ Len(Features(predictions)) = 2

\* the last call was gluon_ds_to_timeseries
ConvertCalled == last.op = "gluon_ds_to_timeseries"

\* C5: the container gluon_ds_to_timeseries returns has one series per
\* record, keyed by the record's item_id and holding its target, and the
\* timestamps start + i hours for the start and length of the first record.
ConvertKeepsOneSeriesPerRecord ==
  ConvertCalled =>
    /\ Len(Features(dataset)) = Len(gluon_dataset)
    /\ \A r \in 1..Len(gluon_dataset) :
         /\ DictHas(Features(dataset), gluon_dataset[r].item_id)
         /\ DictGet(Features(dataset), gluon_dataset[r].item_id)
              = gluon_dataset[r].target
    /\ Len(dataset.timestamps) = Len(gluon_dataset[1].target)
    /\ \A i \in 1..Len(dataset.timestamps) :
         dataset.timestamps[i] = gluon_dataset[1].start + (i - 1)

\* C6: for sequences of one equal length k >= 1 the RMSE is a number, it is
\* not negative, and it is 0 exactly when the two sequences are the same
\* (on the sum of squared differences and on the root of their mean).
RmseZeroIffIdentical ==
  (epc = "done" /\ Len(ot_prediction) = Len(ot_ground_truth)
                /\ Len(ot_prediction) >= 1) =>
    /\ rmse.kind = "value"
    /\ rmse.count = Len(ot_prediction)
    /\ rmse.sumsq >= 0
    /\ rmse.milli >= 0
    /\ rmse.sumsq = 0 <=> ot_prediction = ot_ground_truth
    /\ rmse.milli = 0 <=> ot_prediction = ot_ground_truth

\* the RMSE of a sequence of three values, not all equal, and itself
RmseOfIdenticalReached ==
  /\ epc = "done"
  /\ Len(ot_prediction) = 3
  /\ ot_prediction = ot_ground_truth
  /\ ot_prediction[1] # ot_prediction[2]
  /\ rmse.kind = "value"
  /\ rmse.milli = 0

\* C7: for a forecast of length k >= 0 and a reference of length >= k, the
\* ground truth is the last k elements of the reference.
GroundTruthIsLastK ==
  (epc # "slice" /\ Len(reference) >= Len(ot_prediction)) =>
    LET k == Len(ot_prediction)
    IN  /\ Len(ot_ground_truth) = k
        /\ \A i \in 1..k : ot_ground_truth[i] = reference[Len(reference) - k + i]

\* C8: extract_train_dataset returns for a cutoff outside the time range of
\* its container: at or before the first timestamp the view is empty and
\* keeps every series name, after the last it equals the container.
SplitOutsideRangeReturns ==
  last.op = "extract_train_dataset" =>
    /\ last.date <= Src.timestamps[1] =>
         /\ last.raised = "none"
         /\ Res.timestamps = <<>>
         /\ DictKeys(Features(Res)) = DictKeys(Features(Src))
         /\ \A n \in 1..Len(Features(Res)) : Features(Res)[n].vals = <<>>
    /\ last.date > Src.timestamps[Len(Src.timestamps)] =>
         /\ last.raised = "none"
         /\ Res.timestamps = Src.timestamps
         /\ Features(Res) = Features(Src)

\* C9: a step never changes the timestamps, the series names or the series
\* values of a container other than the one it produces.
NoContainerChangesLater ==
  [][\A s \in SlotNames :
       (Slot(s).bound /\ s # last'.target) =>
         /\ Slot(s)' = Slot(s)
         /\ heap'[Slot(s).features] = heap[Slot(s).features]]_vars

\* C10: when the target of some record differs in length from the
\* timestamps, gluon_ds_to_timeseries raises ShapeMismatchError and binds no
\* container.
ConvertRejectsMismatch ==
  (ConvertCalled /\ \E r \in 1..Len(gluon_dataset) :
                      Len(gluon_dataset[r].target) # Len(gluon_dataset[1].target)) =>
    /\ last.raised = "ShapeMismatchError"
    /\ ~dataset.bound

\* C11: when the prediction and the ground truth do not have one equal length
\* k >= 1, the RMSE computation raises an exception and yields no number.
RmseRejectsLengthMismatch ==
  (epc = "done" /\ (Len(ot_prediction) # Len(ot_ground_truth)
                      \/ Len(ot_prediction) = 0)) =>
    rmse.kind \in {"LengthMismatchError", "ValueError"}

\* the step is a call of timesfm_predictions_to_timeseries that was given the
\* features mapping of a container
MergeStep ==
  /\ ncalls' = ncalls + 1
  /\ last'.op = "timesfm_predictions_to_timeseries"
  /\ last'.features # "none"

\* some prefixed series identifier of the call is already a key of the
\* mapping the call was given
MergeCollides ==
  \E i \in 1..Len(Features(train_dataset)) :
    DictHas(Features(Slot(last'.features)),
            last'.prefix \o Features(train_dataset)[i].name)

\* C12: a call of timesfm_predictions_to_timeseries with an existing features
\* mapping in which a prefixed identifier is already a key raises
\* DuplicateKeyError and replaces no series of the mapping.
MergeRejectsCollision ==
  [][(MergeStep /\ MergeCollides) =>
       /\ last'.raised = "DuplicateKeyError"
       /\ heap' = heap]_vars

\* the context lengths of the rows of `results`, in order
ContextLens == [i \in 1..Len(results) |-> results[i].context_len]

\* C13: when the loop of the sweep has ended, `results` holds one row for
\* each context_len in 32, 64, ..., 35 * 32, in increasing order.
SweepRecordsEveryContextLen ==
  spc = "done" =>
    ContextLens = [i \in 1..num_context_len_idx |-> ContextLenUnit * i]

\* the timestamps of the dataset that extract_train_dataset leaves out of the
\* train view
Withheld == Range(dataset.timestamps) \ Range(train_dataset.timestamps)

\* C14: the timestamps of the prediction container are, as a set, the
\* timestamps of the dataset that the train view withholds (those at or
\* after end_of_train).
PredictionsCoverWithheld ==
  (train_dataset.bound /\ returned # <<>>) =>
    /\ Withheld = { t \in Range(dataset.timestamps) : t >= end_of_train }
    /\ Range(predictions.timestamps) = Withheld

\* the RMSE of the current iteration has its ground truth
Scored == spc = "evaluate" /\ epc \in {"rmse", "done"}

\* the indices, in dataset.features["OT_0"], of the elements of
\* ot_ground_truth: the slice [-len(ot_prediction):] taken of the indices
TruthIndex ==
  PyTail([i \in 1..Len(reference) |-> i], Len(ot_prediction))

\* C15: in every iteration of the sweep, the timestamp of the i-th forecast
\* value of OT_0 is the dataset timestamp of the i-th element of the ground
\* truth it is compared with.
ForecastAlignedWithTruth ==
  Scored =>
    /\ Len(TruthIndex) = Len(ot_prediction)
    /\ \A i \in 1..Len(ot_prediction) :
         predictions.timestamps[i] = dataset.timestamps[TruthIndex[i]]

\* a forecast has been made of the train view
Fed == train_dataset.bound /\ Len(timesfm_predictions) > 0

\* the indices, in each series of the dataset, of the elements of the
\* forecast input: those extract_train_dataset's mask selects
InputIndex ==
  Selected(Mask(dataset.timestamps, end_of_train), Len(dataset.timestamps))

\* C16: every value given to the model is a dataset element whose timestamp
\* is before end_of_train, every ground-truth value of the RMSE is a dataset
\* element whose timestamp is at or after end_of_train, and no dataset
\* element is both.
NoLeak ==
  /\ Fed =>
       /\ \A r \in 1..Len(ForecastInput) :
            ForecastInput[r] =
              [k \in 1..Len(InputIndex) |-> Features(dataset)[r].vals[InputIndex[k]]]
       /\ \A k \in 1..Len(InputIndex) :
            dataset.timestamps[InputIndex[k]] < end_of_train
  /\ (Fed /\ Scored) =>
       /\ ot_ground_truth = [i \in 1..Len(TruthIndex) |-> reference[TruthIndex[i]]]
       /\ reference = DictGet(Features(dataset), "OT_0")
       /\ \A i \in 1..Len(TruthIndex) :
            dataset.timestamps[TruthIndex[i]] >= end_of_train
       /\ Range(InputIndex) \cap Range(TruthIndex) = {}

NoLeakReached ==
  /\ Fed
  /\ Scored
  /\ epc = "done"
  /\ context_len_idx > 1
  /\ Len(InputIndex) > 0
  /\ Len(ForecastInput) = 2
  /\ Len(ot_ground_truth) = HorizonLen

\* the mapping a call without a features mapping returns for the array arr:
\* one series per row, under the name of the train view's series
ExpectedFeatures(arr) ==
  [i \in 1..Len(Features(train_dataset)) |->
     [name |-> Features(train_dataset)[i].name, vals |-> arr[i]]]

\* C17: after any calls of timesfm_predictions_to_timeseries without a
\* features mapping, each returned container holds exactly the series of its
\* own call's forecast array, and the containers of two calls, like the
\* containers of the dataset and of the train view, share no mapping.
CallsAreIndependent ==
  /\ \A n \in 1..Len(returned) :
       /\ Len(returned[n].array) = Len(Features(train_dataset))
       /\ heap[returned[n].features] = ExpectedFeatures(returned[n].array)
       /\ returned[n].features \notin {dataset.features, train_dataset.features}
  /\ Len(returned) = 2 => returned[1].features # returned[2].features
  /\ returned # <<>> => predictions.features = returned[Len(returned)].features

CallsAreIndependentReached ==
  /\ Len(returned) = 2
  /\ returned[1].array # returned[2].array
  /\ Len(returned[2].array) = 2
  /\ context_len_idx > 1
  /\ spc = "select"

====
